---- MODULE Spec2Model ----
(***************************************************************************)
(* Realtime chat relay (socket.io + mongoose + web-push).                  *)
(*                                                                         *)
(* The model follows the push-enabled server (src/unnamed/part_000, lines  *)
(* 1-342), whose socket handlers are a superset of the push-free variants  *)
(* (src/server.js, src/unnamed/part_000 lines 344-629).                    *)
(*                                                                         *)
(* Node runs the handlers on one thread: a handler runs without            *)
(* interruption from one await to the next, so every action below is one   *)
(* such uninterrupted piece of a handler (or of a promise callback).       *)
(***************************************************************************)
EXTENDS Integers, Sequences, FiniteSets

\* ---------------------------------------------------------------- bounds

\* Number of chatMessage events the server receives in one behaviour.
MaxEvents == 2

\* Number of chatMessage events in the behaviours of SpecReg.
RegEvents == 1

\* Number of chatMessage events in the behaviours of SpecData.
DataEvents == 1

\* Number of identifiers uuidv4() can return.
MaxIds == 5

\* ------------------------------------------------------------ input sets

Conns     == {"A", "B"}          \* sockets that may connect
Sessions  == {"abc", "xyz"}      \* session identifiers (room names)
Endpoints == {"E1", "E2"}        \* push endpoints
Keys      == {"k1"}              \* key material of a PushSubscription
Senders   == {"u1"}
Absent    == "absent"            \* a field a request body does not carry

\* HTTP-equivalent status codes a push transport rejection may carry
\* (0: an error without statusCode).
StatusCodes == {0, 404, 410, 500}

\* States of one sendNotification call of an event:
\*   none          the endpoint was not returned by the event's query
\*   sending       sendNotification called, not settled
\*   sent          fulfilled
\*   failed        rejected, classified not gone (logged)
\*   deleting      rejected, classified gone, deleteOne called, not settled
\*   deleted       deleteOne fulfilled
\*   deleteFailed  deleteOne rejected (logged)
Settled == {"sent", "failed", "deleted", "deleteFailed"}
GoneStates == {"deleting", "deleted", "deleteFailed"}
Rejected == GoneStates \cup {"failed"}

\* text is a sequence of characters; fileUrl and fileType are strings.
Texts == {<<"h", "i">>}
Files == {[fileUrl |-> "", fileType |-> ""]}

VARIABLES
  status,    \* socket -> "new" | "connected" | "disconnected"
  rooms,     \* socket.io adapter: set of <<socket, room>> memberships
  inbox,     \* socket -> sequence of chatMessage emits delivered to it
  messages,  \* Message collection, in insertion order
  subs,      \* Subscription collection: set of documents
  ev,        \* the chatMessage events received so far, in arrival order
  joined2,   \* history: the first membership whose joinSession was issued
             \* again, with the length of the socket's inbox at that moment
  prior,     \* history: event -> see Prior
  rereg,     \* history: event -> endpoints registered again since the
             \* event's attempt to them was rejected
  users,     \* User collection: set of documents
  chatSessions, \* ChatSession collection: set of documents
  reg,       \* observation: the last save-subscription request and its response
  stalled    \* environment: the events whose store write is never answered

vars == <<status, rooms, inbox, messages, subs, ev, joined2, prior, rereg,
          users, chatSessions, reg, stalled>>

\* The history, observation and environment variables: no action of the
\* socket handlers reads them; each specification says which of them it
\* records.
hist == <<joined2, prior, rereg, reg, stalled>>

\* The collections of the admin routes (create-chat, create-user, users/:id).
admin == <<users, chatSessions>>

(* An element of ev is a record:                                           *)
(*   from      the socket whose handler runs                                *)
(*   msg       messageData                                                  *)
(*   pc        "saving" (awaiting save) | "finding" (awaiting the query)    *)
(*             | "pushing" (query answered) | "findFailed" (query rejected) *)
(*   saved     whether the save fulfilled                                   *)
(*   snap      the documents the query returned                             *)
(*   push      endpoint -> state of the sendNotification call               *)
(*   tries     history: endpoint -> number of sendNotification calls        *)
(*   payloads  history: the payloads passed to sendNotification             *)
(*   inb       history: the inbound payload as it was received              *)

EventIds == 1..Len(ev)

NoPush == [p \in Endpoints |-> "none"]
NoTries == [p \in Endpoints |-> 0]
NoHist == [e \in 1..MaxEvents |-> {}]

\* reg before any save-subscription request: no body, no store call, no
\* response.
NoRequest ==
  [body |-> [endpoint |-> Absent, keys |-> Absent, sessionId |-> Absent],
   called |-> FALSE, status |-> 0]

\* ------------------------------------------------- membership registry

\* Mutant of Join: a socket is in one room at a time.
JoinExclusive(r, c, s) == {m \in r : m[1] # c} \cup {<<c, s>>}

\* Mutant of Join: the room keeps one socket, a later join replaces it.
JoinReplace(r, c, s) == {m \in r : m[2] # s} \cup {<<c, s>>}

\* socket.join(sessionId): the adapter keeps a Set of sockets per room.
Join(r, c, s) == r \cup {<<c, s>>}

\* Mutant of LeaveAll: the disconnected socket stays in its rooms.
LeaveNone(r, c) == r

\* socket.io on disconnect: the socket leaves every room.
LeaveAll(r, c) == {m \in r : m[1] # c}

Members(r, s) == {c \in Conns : <<c, s>> \in r}

\* Mutant of Broadcast: io.emit, to every socket that is in some room.
BroadcastAll(box, r, s, entry) ==
  [c \in Conns |-> IF \E m \in r : m[1] = c THEN Append(box[c], entry) ELSE box[c]]

\* io.to(sessionId).emit('chatMessage', messageData): one emit to every
\* socket of the room.
Broadcast(box, r, s, entry) ==
  [c \in Conns |-> IF c \in Members(r, s) THEN Append(box[c], entry) ELSE box[c]]

\* ------------------------------------------------------ message data

\* Mutant of Destructure: messageData is the inbound payload itself.
DestructureWhole(m) == m

\* ({ sessionId, sender, text, fileUrl, fileType }) => messageData = { ... }:
\* the five properties of the inbound payload (a property the payload lacks
\* is undefined), whatever else the payload carries.
Destructure(m) ==
  [sessionId |-> m.sessionId, sender |-> m.sender, text |-> m.text,
   fileUrl |-> m.fileUrl, fileType |-> m.fileType]

\* new Message(messageData): the schema's defaults for the paths that are
\* undefined (text, fileUrl, fileType: ''; createdAt: Date.now).
MessageDoc(md) ==
  [sessionId |-> md.sessionId, sender |-> md.sender,
   text      |-> IF md.text = Absent THEN <<>> ELSE md.text,
   fileUrl   |-> IF md.fileUrl = Absent THEN "" ELSE md.fileUrl,
   fileType  |-> IF md.fileType = Absent THEN "" ELSE md.fileType,
   createdAt |-> "now"]

\* ------------------------------------------------------ push payload

Min(a, b) == IF a < b THEN a ELSE b

BodyLimit == 100

\* Mutant of Body: the text is not cut.
BodyWhole(text) ==
  IF text = Absent \/ text = <<>> THEN "Sent an attachment" ELSE text

\* text?.slice(0, 100) || 'Sent an attachment'
Body(text) ==
  IF text = Absent \/ text = <<>> THEN "Sent an attachment"
  ELSE SubSeq(text, 1, Min(BodyLimit, Len(text)))

\* fileType?.startsWith('image/')
IsImage(fileType) == fileType \in {"image/png"}

\* fileType?.startsWith('image/') ? fileUrl : undefined
Icon(fileUrl, fileType) == IF IsImage(fileType) THEN fileUrl ELSE Absent

\* JSON.stringify({ title, body, icon, url })
Payload(m) ==
  [title |-> <<"New message from ", m.sender>>,
   body  |-> Body(m.text),
   icon  |-> Icon(m.fileUrl, m.fileType),
   url   |-> <<"/chat/", m.sessionId>>]

\* Mutant of Gone: every rejection that carries a status code is gone.
GoneAnyStatus(code) == code # 0

\* err.statusCode === 410 || err.statusCode === 404
Gone(code) == code = 410 \/ code = 404

\* Subscription.find({ sessionId })
Find(store, s) == {d \in store : d.sessionId = s}

\* Mutant of DeleteOne: the filter matches no document.
DeleteOneNoMatch(store, p) == store

\* Subscription.deleteOne({ endpoint })
DeleteOne(store, p) == {d \in store : d.endpoint # p}

\* Subscription.findOneAndUpdate({endpoint}, {endpoint, keys, sessionId},
\*                               {upsert: true})
Upsert(store, p, k, s) ==
  {d \in store : d.endpoint # p} \cup {[endpoint |-> p, keys |-> k, sessionId |-> s]}

\* ------------------------------------------------------------ initial

Init ==
  /\ status = [c \in Conns |-> "new"]
  /\ rooms = {}
  /\ inbox = [c \in Conns |-> <<>>]
  /\ messages = <<>>
  /\ subs = {}
  /\ ev = <<>>
  /\ joined2 = {}
  /\ prior = NoHist
  /\ rereg = NoHist
  /\ users = {}
  /\ chatSessions = {}
  /\ reg = NoRequest
  /\ stalled = {}

\* ------------------------------------------------------------ actions

\* io.on('connection', socket => ...)
Connect(c) ==
  /\ status[c] = "new"
  /\ status' = [status EXCEPT ![c] = "connected"]
  /\ UNCHANGED <<rooms, inbox, messages, subs, ev, users, chatSessions>>

\* socket.on('joinSession', sessionId => socket.join(sessionId))
\* (joined2 is set by the specification: see JoinedAgain)
JoinSession(c, s) ==
  /\ status[c] = "connected"
  /\ rooms' = Join(rooms, c, s)
  /\ UNCHANGED <<status, inbox, messages, subs, ev, users, chatSessions>>

\* socket.on('disconnect', ...): the handler logs; socket.io removes the
\* socket from its rooms.
Disconnect(c) ==
  /\ status[c] = "connected"
  /\ status' = [status EXCEPT ![c] = "disconnected"]
  /\ rooms' = LeaveAll(rooms, c)
  /\ UNCHANGED <<inbox, messages, subs, ev, users, chatSessions>>

\* Mutant of ChatMessage: the emit is issued on receipt, before the save.
ChatMessageEmitFirst(c, m) ==
  /\ status[c] = "connected"
  /\ Len(ev) < MaxEvents
  /\ inbox' = Broadcast(inbox, rooms, m.sessionId,
                        [id |-> Len(ev) + 1, payload |-> Destructure(m)])
  /\ ev' = Append(ev, [from |-> c, msg |-> Destructure(m), pc |-> "saving",
                       saved |-> FALSE, snap |-> {}, push |-> NoPush,
                       tries |-> NoTries, payloads |-> {}, inb |-> m])
  /\ UNCHANGED <<status, rooms, messages, subs, users, chatSessions>>

\* socket.on('chatMessage', async ({...}) => { messageData = ...;
\*   await new Message(messageData).save()   <- suspended here
ChatMessage(c, m) ==
  /\ status[c] = "connected"
  /\ Len(ev) < MaxEvents
  /\ ev' = Append(ev, [from |-> c, msg |-> Destructure(m), pc |-> "saving", saved |-> FALSE,
                       snap |-> {}, push |-> NoPush, tries |-> NoTries,
                       payloads |-> {}, inb |-> m])
  /\ UNCHANGED <<status, rooms, inbox, messages, subs, users, chatSessions>>

\* An unsettled store or transport call of event e's push fan-out.
PushPending(e) ==
  \/ ev[e].pc = "finding"
  \/ \E p \in Endpoints : ev[e].push[p] \in {"sending", "deleting"}

\* Mutant of SaveDone: the emit is inside the try block, after the save.
SaveDoneAbort(e, ok) ==
  /\ e \in EventIds
  /\ ev[e].pc = "saving"
  /\ messages' = IF ok THEN Append(messages, [id |-> e, doc |-> MessageDoc(ev[e].msg)])
                 ELSE messages
  /\ inbox' = IF ok THEN Broadcast(inbox, rooms, ev[e].msg.sessionId,
                                   [id |-> e, payload |-> ev[e].msg])
              ELSE inbox
  /\ ev' = [ev EXCEPT ![e].pc = "finding", ![e].saved = ok]
  /\ UNCHANGED <<status, rooms, subs, users, chatSessions>>

\* Mutant of SaveDone: events are handled one at a time, the next one after
\* the push fan-out of the previous one has settled.
SaveDoneAfterPushes(e, ok) ==
  /\ e \in EventIds
  /\ ev[e].pc = "saving"
  /\ \A f \in EventIds : ~PushPending(f)
  /\ messages' = IF ok THEN Append(messages, [id |-> e, doc |-> MessageDoc(ev[e].msg)])
                 ELSE messages
  /\ inbox' = Broadcast(inbox, rooms, ev[e].msg.sessionId,
                        [id |-> e, payload |-> ev[e].msg])
  /\ ev' = [ev EXCEPT ![e].pc = "finding", ![e].saved = ok]
  /\ UNCHANGED <<status, rooms, subs, users, chatSessions>>

\* Mutant of SaveDone: the emit is scoped to the sending socket, and is made
\* only while that socket is connected.
SaveDoneSenderScoped(e, ok) ==
  /\ e \in EventIds
  /\ ev[e].pc = "saving"
  /\ messages' = IF ok THEN Append(messages, [id |-> e, doc |-> MessageDoc(ev[e].msg)])
                 ELSE messages
  /\ inbox' = IF status[ev[e].from] = "connected"
              THEN Broadcast(inbox, rooms, ev[e].msg.sessionId,
                             [id |-> e, payload |-> ev[e].msg])
              ELSE inbox
  /\ ev' = [ev EXCEPT ![e].pc = "finding", ![e].saved = ok]
  /\ UNCHANGED <<status, rooms, subs, users, chatSessions>>

\* Mutant of SaveDone: the save replaces the collection by the new document.
SaveDoneOverwrite(e, ok) ==
  /\ e \in EventIds
  /\ ev[e].pc = "saving"
  /\ messages' = IF ok THEN <<[id |-> e, doc |-> MessageDoc(ev[e].msg)]>>
                 ELSE messages
  /\ inbox' = Broadcast(inbox, rooms, ev[e].msg.sessionId,
                        [id |-> e, payload |-> ev[e].msg])
  /\ ev' = [ev EXCEPT ![e].pc = "finding", ![e].saved = ok]
  /\ UNCHANGED <<status, rooms, subs, users, chatSessions>>

\* The save settles (ok or rejected and caught); the handler resumes:
\*   io.to(sessionId).emit('chatMessage', messageData);
\*   await Subscription.find({ sessionId })   <- suspended here
SaveDone(e, ok) ==
  /\ e \in EventIds
  /\ ev[e].pc = "saving"
  /\ messages' = IF ok THEN Append(messages, [id |-> e, doc |-> MessageDoc(ev[e].msg)])
                 ELSE messages
  /\ inbox' = Broadcast(inbox, rooms, ev[e].msg.sessionId,
                        [id |-> e, payload |-> ev[e].msg])
  /\ ev' = [ev EXCEPT ![e].pc = "finding", ![e].saved = ok]
  /\ UNCHANGED <<status, rooms, subs, users, chatSessions>>

\* Event e's handler and every callback it started have finished.
DispatchDone(e) == ev[e].pc \in {"pushing", "findFailed"} /\ ~PushPending(e)

\* Mutant of FindDone: a query that fails is reported to the room.
FindDoneReports(e, ok) ==
  /\ e \in EventIds
  /\ ev[e].pc = "finding"
  /\ IF ok
     THEN LET found == Find(subs, ev[e].msg.sessionId)
              eps   == {d.endpoint : d \in found}
          IN /\ ev' = [ev EXCEPT
                        ![e].pc = "pushing",
                        ![e].snap = found,
                        ![e].push = [p \in Endpoints |->
                                       IF p \in eps THEN "sending" ELSE "none"],
                        ![e].tries = [p \in Endpoints |->
                                       IF p \in eps THEN 1 ELSE 0],
                        ![e].payloads = IF eps = {} THEN {} ELSE {Payload(ev[e].msg)}]
             /\ inbox' = inbox
     ELSE /\ ev' = [ev EXCEPT ![e].pc = "findFailed"]
          /\ inbox' = Broadcast(inbox, rooms, ev[e].msg.sessionId,
                                [id |-> e, payload |-> ev[e].msg])
  /\ UNCHANGED <<status, rooms, messages, subs, users, chatSessions>>

\* The query settles. Rejected: caught by the outer try, logged.
\* Fulfilled: the payload is built once and sendNotification is called for
\* every document returned.
FindDone(e, ok) ==
  /\ e \in EventIds
  /\ ev[e].pc = "finding"
  /\ IF ok
     THEN LET found == Find(subs, ev[e].msg.sessionId)
              eps   == {d.endpoint : d \in found}
          IN ev' = [ev EXCEPT
                      ![e].pc = "pushing",
                      ![e].snap = found,
                      ![e].push = [p \in Endpoints |->
                                     IF p \in eps THEN "sending" ELSE "none"],
                      ![e].tries = [p \in Endpoints |->
                                     IF p \in eps THEN 1 ELSE 0],
                      ![e].payloads = IF eps = {} THEN {} ELSE {Payload(ev[e].msg)}]
     ELSE ev' = [ev EXCEPT ![e].pc = "findFailed"]
  /\ UNCHANGED <<status, rooms, inbox, messages, subs, users, chatSessions>>

\* Mutant of PushOk: the Subscription is deleted after a delivery.
PushOkPrune(e, p) ==
  /\ e \in EventIds
  /\ ev[e].push[p] = "sending"
  /\ ev' = [ev EXCEPT ![e].push[p] = "sent"]
  /\ subs' = DeleteOne(subs, p)
  /\ UNCHANGED <<status, rooms, inbox, messages, users, chatSessions>>

\* webpush.sendNotification(sub, payload) fulfils.
PushOk(e, p) ==
  /\ e \in EventIds
  /\ ev[e].push[p] = "sending"
  /\ ev' = [ev EXCEPT ![e].push[p] = "sent"]
  /\ UNCHANGED <<status, rooms, inbox, messages, subs, users, chatSessions>>

\* Mutant of PushFail: a rejection that is not gone is sent again.
PushFailRetry(e, p, code) ==
  /\ e \in EventIds
  /\ ev[e].push[p] = "sending"
  /\ ev' = IF Gone(code) THEN [ev EXCEPT ![e].push[p] = "deleting"]
           ELSE [ev EXCEPT ![e].tries[p] = @ + 1]
  /\ UNCHANGED <<status, rooms, inbox, messages, subs, users, chatSessions>>

\* Mutant of PushFail: one rejection gives up the event's other calls.
PushFailAbortAll(e, p, code) ==
  /\ e \in EventIds
  /\ ev[e].push[p] = "sending"
  /\ ev' = [ev EXCEPT ![e].push =
              [q \in Endpoints |->
                 IF q = p THEN (IF Gone(code) THEN "deleting" ELSE "failed")
                 ELSE IF ev[e].push[q] = "sending" THEN "failed"
                 ELSE ev[e].push[q]]]
  /\ UNCHANGED <<status, rooms, inbox, messages, subs, users, chatSessions>>

\* webpush.sendNotification(sub, payload) rejects: the .catch callback.
\* Gone: Subscription.deleteOne is called; otherwise the error is logged.
PushFail(e, p, code) ==
  /\ e \in EventIds
  /\ ev[e].push[p] = "sending"
  /\ ev' = [ev EXCEPT ![e].push[p] = IF Gone(code) THEN "deleting" ELSE "failed"]
  /\ UNCHANGED <<status, rooms, inbox, messages, subs, users, chatSessions>>

\* Subscription.deleteOne({ endpoint: sub.endpoint }) settles
\* (.catch(console.error) when rejected).
DeleteDone(e, p, ok) ==
  /\ e \in EventIds
  /\ ev[e].push[p] = "deleting"
  /\ subs' = IF ok THEN DeleteOne(subs, p) ELSE subs
  /\ ev' = [ev EXCEPT ![e].push[p] = IF ok THEN "deleted" ELSE "deleteFailed"]
  /\ UNCHANGED <<status, rooms, inbox, messages, users, chatSessions>>

\* POST /api/save-subscription with a body that passes validation and a
\* store that performs the upsert.
SaveSubscription(p, k, s) ==
  /\ p # Absent /\ k # Absent
  /\ subs' = Upsert(subs, p, k, s)
  /\ UNCHANGED <<status, rooms, inbox, messages, ev, users, chatSessions>>

\* ------------------------------------------------------------ admin routes

\* The values of uuidv4().
Uuids == 1..MaxIds

\* `${CLIENT_URL}/chat/${sessionId}`
LinkOf(u) == <<"/chat/", u>>

\* The sessionId embedded in a link.
SessionOf(link) == link[2]

\* uuidv4() returns an identifier that was not returned before: one that no
\* stored document carries.
Fresh(u) ==
  /\ u \in Uuids
  /\ \A c \in chatSessions : c.sessionId # u
  /\ \A d \in users : SessionOf(d.link) # u

\* POST /api/create-chat: new ChatSession({ sessionId }).save()
CreateChat(u, ok) ==
  /\ Fresh(u)
  /\ chatSessions' = IF ok THEN chatSessions \cup {[sessionId |-> u]} ELSE chatSessions
  /\ UNCHANGED <<status, rooms, inbox, messages, subs, ev, users>>

\* POST /api/create-user of the push-enabled server: the ChatSession is
\* saved, then the User whose link embeds its sessionId; a rejected save
\* ends the route (500).  The identifier is known to this request only, so
\* the two saves are taken in one step.
CreateUser(u, okSession, okUser) ==
  /\ Fresh(u)
  /\ chatSessions' = IF okSession THEN chatSessions \cup {[sessionId |-> u]}
                     ELSE chatSessions
  /\ users' = IF okSession /\ okUser THEN users \cup {[link |-> LinkOf(u)]}
              ELSE users
  /\ UNCHANGED <<status, rooms, inbox, messages, subs, ev>>

\* POST /api/create-user of src/server.js: the link embeds a new identifier
\* and the User is saved; no ChatSession is written.
CreateUserBasic(u, ok) ==
  /\ Fresh(u)
  /\ users' = IF ok THEN users \cup {[link |-> LinkOf(u)]} ELSE users
  /\ UNCHANGED <<status, rooms, inbox, messages, subs, ev, chatSessions>>

\* DELETE /api/users/:id: User.findByIdAndDelete(id)
DeleteUser(d, ok) ==
  /\ d \in users
  /\ users' = IF ok THEN users \ {d} ELSE users
  /\ UNCHANGED <<status, rooms, inbox, messages, subs, ev, chatSessions>>

\* A text of n characters; the character at position i is written i.
RECURSIVE TextOf(_)
TextOf(n) == IF n = 0 THEN <<>> ELSE Append(TextOf(n - 1), n)

\* The texts of inbound chatMessage payloads: absent, empty, short, of
\* BodyLimit and of BodyLimit + 1 characters.
RichTexts ==
  <<Absent, TextOf(0), TextOf(1), TextOf(BodyLimit), TextOf(BodyLimit + 1)>>

\* Inbound chatMessage payloads with text t: no file, an image, another
\* file, or no file properties; with and without a createdAt property.
RichData(t) ==
  {[sessionId |-> "abc", sender |-> "u1", text |-> t,
    fileUrl |-> f[1], fileType |-> f[2], createdAt |-> ca] :
     f \in {<<"", "">>, <<"/f/a.png", "image/png">>,
            <<"/f/a.pdf", "application/pdf">>, <<Absent, Absent>>},
     ca \in {Absent, "t0"}}

\* Key material a registration request may carry.
RegKeys == {"k1", "k2"}

\* Bodies of POST /api/save-subscription requests.
RegBodies ==
  [endpoint : Endpoints \cup {Absent}, keys : RegKeys \cup {Absent},
   sessionId : Sessions]

\* !x for a property of the request body: undefined or the empty string.
Falsy(x) == x \in {Absent, ""}

\* Mutant of Malformed: only the endpoint is validated.
MalformedEndpointOnly(b) == Falsy(b.endpoint)

\* !sub.endpoint || !sub.keys
Malformed(b) == Falsy(b.endpoint) \/ Falsy(b.keys)

\* Mutant of Upserted: the registration inserts a new document.
Inserted(store, b) ==
  store \cup {[endpoint |-> b.endpoint, keys |-> b.keys, sessionId |-> b.sessionId]}

\* The store after findOneAndUpdate for body b has been performed.
Upserted(store, b) == Upsert(store, b.endpoint, b.keys, b.sessionId)

\* POST /api/save-subscription, the whole route: validation (400), the
\* upsert (201), or the store rejecting it (500, logged).
PostSaveSubscription(b, ok) ==
  /\ IF Malformed(b)
     THEN /\ subs' = subs
          /\ reg' = [body |-> b, called |-> FALSE, status |-> 400]
     ELSE IF ok
     THEN /\ subs' = Upserted(subs, b)
          /\ reg' = [body |-> b, called |-> TRUE, status |-> 201]
     ELSE /\ subs' = subs
          /\ reg' = [body |-> b, called |-> TRUE, status |-> 500]
  /\ UNCHANGED <<status, rooms, inbox, messages, ev, users, chatSessions>>

MessageData ==
  {[sessionId |-> s, sender |-> u, text |-> t,
    fileUrl |-> f.fileUrl, fileType |-> f.fileType] :
     s \in Sessions, u \in Senders, t \in Texts, f \in Files}

\* ------------------------------------------------------------ history

\* joined2 after joinSession(s) by c: the first joinSession issued by a
\* socket that is already in the room.
JoinedAgain(c, s) ==
  IF <<c, s>> \in rooms /\ joined2 = {}
  THEN {[conn |-> c, sess |-> s, at |-> Len(inbox[c])]}
  ELSE joined2

\* joined2 after c disconnects.
JoinedLeft(c) == {j \in joined2 : j.conn # c}

\* prior after the query of event e is answered: what the finished
\* dispatches of the same session had settled for each endpoint at that
\* moment (endpoints registered again since are left out).
PriorAt(e) ==
  [prior EXCEPT ![e] =
     {x \in Endpoints \X Rejected :
        \E g \in EventIds : /\ g # e
                             /\ DispatchDone(g)
                             /\ ev[g].msg.sessionId = ev[e].msg.sessionId
                             /\ ev[g].push[x[1]] = x[2]
                             /\ x[1] \notin rereg[g]}]

\* rereg after endpoint p is registered.
Reregistered(p) ==
  [e \in 1..MaxEvents |->
     IF e \in EventIds /\ ev[e].push[p] \in Rejected THEN rereg[e] \cup {p}
     ELSE rereg[e]]

(***************************************************************************)
(* Specifications.  The whole server over all inputs is Next; its state    *)
(* space is the product of the membership registry and the push pipeline,  *)
(* which do not read each other's state, so each group of properties is    *)
(* checked under the server run against the inputs it is about:            *)
(*   SpecLive      sockets A and B, both sessions, no registrations;       *)
(*   SpecJoin      SpecLive with the history of a repeated joinSession;    *)
(*   SpecPush      one socket that joins no session, events addressed to   *)
(*                 "abc", registrations of both endpoints for both         *)
(*                 sessions, every push outcome, with the push history;    *)
(*   SpecPushLive  SpecPush without the history and with the socket        *)
(*                 joining "abc".                                          *)
(***************************************************************************)
Next ==
  \/ \E c \in Conns : Connect(c) /\ UNCHANGED hist
  \/ \E c \in Conns, s \in Sessions :
        JoinSession(c, s) /\ joined2' = JoinedAgain(c, s) /\ UNCHANGED <<prior, rereg, reg, stalled>>
  \/ \E c \in Conns :
        Disconnect(c) /\ joined2' = JoinedLeft(c) /\ UNCHANGED <<prior, rereg, reg, stalled>>
  \/ \E c \in Conns, m \in MessageData : ChatMessage(c, m) /\ UNCHANGED hist
  \/ \E e \in 1..MaxEvents, ok \in BOOLEAN : SaveDone(e, ok) /\ UNCHANGED hist
  \/ \E e \in 1..MaxEvents, ok \in BOOLEAN :
        FindDone(e, ok) /\ prior' = PriorAt(e) /\ UNCHANGED <<joined2, rereg, reg, stalled>>
  \/ \E e \in 1..MaxEvents, p \in Endpoints : PushOk(e, p) /\ UNCHANGED hist
  \/ \E e \in 1..MaxEvents, p \in Endpoints, code \in StatusCodes :
        PushFail(e, p, code) /\ UNCHANGED hist
  \/ \E e \in 1..MaxEvents, p \in Endpoints, ok \in BOOLEAN :
        DeleteDone(e, p, ok) /\ UNCHANGED hist
  \/ \E p \in Endpoints, k \in Keys, s \in Sessions :
        SaveSubscription(p, k, s) /\ rereg' = Reregistered(p) /\ UNCHANGED <<joined2, prior, reg, stalled>>

Spec == Init /\ [][Next]_vars

NextLive ==
  \/ \E c \in Conns : Connect(c) /\ UNCHANGED hist
  \/ \E c \in Conns, s \in Sessions : JoinSession(c, s) /\ UNCHANGED hist
  \/ \E c \in Conns : Disconnect(c) /\ UNCHANGED hist
  \/ \E c \in Conns, m \in MessageData : ChatMessage(c, m) /\ UNCHANGED hist
  \/ \E e \in 1..MaxEvents, ok \in BOOLEAN : SaveDone(e, ok) /\ UNCHANGED hist
  \/ \E e \in 1..MaxEvents, ok \in BOOLEAN : FindDone(e, ok) /\ UNCHANGED hist

SpecLive == Init /\ [][NextLive]_vars

NextJoin ==
  \/ \E c \in Conns : Connect(c) /\ UNCHANGED hist
  \/ \E c \in Conns, s \in Sessions :
        JoinSession(c, s) /\ joined2' = JoinedAgain(c, s) /\ UNCHANGED <<prior, rereg, reg, stalled>>
  \/ \E c \in Conns :
        Disconnect(c) /\ joined2' = JoinedLeft(c) /\ UNCHANGED <<prior, rereg, reg, stalled>>
  \/ \E c \in Conns, m \in MessageData : ChatMessage(c, m) /\ UNCHANGED hist
  \/ \E e \in 1..MaxEvents, ok \in BOOLEAN : SaveDone(e, ok) /\ UNCHANGED hist
  \/ \E e \in 1..MaxEvents, ok \in BOOLEAN : FindDone(e, ok) /\ UNCHANGED hist

SpecJoin == Init /\ [][NextJoin]_vars

PushConns == {"A"}
PushRooms == {"abc"}
PushData  == {m \in MessageData : m.sessionId \in PushRooms}

NextPush ==
  \/ \E c \in PushConns : Connect(c) /\ UNCHANGED hist
  \/ \E c \in PushConns, m \in PushData : ChatMessage(c, m) /\ UNCHANGED hist
  \/ \E e \in 1..MaxEvents, ok \in BOOLEAN : SaveDone(e, ok) /\ UNCHANGED hist
  \/ \E e \in 1..MaxEvents, ok \in BOOLEAN :
        FindDone(e, ok) /\ prior' = PriorAt(e) /\ UNCHANGED <<joined2, rereg, reg, stalled>>
  \/ \E e \in 1..MaxEvents, p \in Endpoints : PushOk(e, p) /\ UNCHANGED hist
  \/ \E e \in 1..MaxEvents, p \in Endpoints, code \in StatusCodes :
        PushFail(e, p, code) /\ UNCHANGED hist
  \/ \E e \in 1..MaxEvents, p \in Endpoints, ok \in BOOLEAN :
        DeleteDone(e, p, ok) /\ UNCHANGED hist
  \/ \E p \in Endpoints, k \in Keys, s \in Sessions :
        SaveSubscription(p, k, s) /\ rereg' = Reregistered(p) /\ UNCHANGED <<joined2, prior, reg, stalled>>

SpecPush == Init /\ [][NextPush]_vars

NextPushLive ==
  \/ \E c \in PushConns : Connect(c) /\ UNCHANGED hist
  \/ \E c \in PushConns, s \in PushRooms : JoinSession(c, s) /\ UNCHANGED hist
  \/ \E c \in PushConns, m \in PushData : ChatMessage(c, m) /\ UNCHANGED hist
  \/ \E e \in 1..MaxEvents, ok \in BOOLEAN : SaveDone(e, ok) /\ UNCHANGED hist
  \/ \E e \in 1..MaxEvents, ok \in BOOLEAN : FindDone(e, ok) /\ UNCHANGED hist
  \/ \E e \in 1..MaxEvents, p \in Endpoints : PushOk(e, p) /\ UNCHANGED hist
  \/ \E e \in 1..MaxEvents, p \in Endpoints, code \in StatusCodes :
        PushFail(e, p, code) /\ UNCHANGED hist
  \/ \E e \in 1..MaxEvents, p \in Endpoints, ok \in BOOLEAN :
        DeleteDone(e, p, ok) /\ UNCHANGED hist
  \/ \E p \in Endpoints, k \in Keys, s \in Sessions :
        SaveSubscription(p, k, s) /\ UNCHANGED hist

SpecPushLive == Init /\ [][NextPushLive]_vars

\* The registration route with every request body, against RegEvents
\* events of either session whose calls are delivered.
NextReg ==
  \/ \E c \in PushConns : Connect(c) /\ UNCHANGED hist
  \/ \E c \in PushConns, m \in MessageData :
        Len(ev) < RegEvents /\ ChatMessage(c, m) /\ UNCHANGED hist
  \/ \E e \in 1..MaxEvents : SaveDone(e, TRUE) /\ UNCHANGED hist
  \/ \E e \in 1..MaxEvents : FindDone(e, TRUE) /\ UNCHANGED hist
  \/ \E e \in 1..MaxEvents, p \in Endpoints : PushOk(e, p) /\ UNCHANGED hist
  \/ \E b \in RegBodies, ok \in BOOLEAN :
        PostSaveSubscription(b, ok) /\ UNCHANGED <<joined2, prior, rereg, stalled>>

SpecReg == Init /\ [][NextReg]_vars

\* The chatMessage handler with every shape of inbound payload: one socket
\* joined to "abc", one Subscription of "abc", DataEvents events.
NextData ==
  \/ \E c \in PushConns : Connect(c) /\ UNCHANGED hist
  \/ \E c \in PushConns, s \in PushRooms : JoinSession(c, s) /\ UNCHANGED hist
  \/ \E c \in PushConns, k \in 1..Len(RichTexts) : \E m \in RichData(RichTexts[k]) :
        Len(ev) < DataEvents /\ ChatMessage(c, m) /\ UNCHANGED hist
  \/ \E e \in 1..MaxEvents, ok \in BOOLEAN : SaveDone(e, ok) /\ UNCHANGED hist
  \/ \E e \in 1..MaxEvents, ok \in BOOLEAN : FindDone(e, ok) /\ UNCHANGED hist
  \/ \E e \in 1..MaxEvents, p \in Endpoints : PushOk(e, p) /\ UNCHANGED hist
  \/ \E k \in Keys, s \in PushRooms : SaveSubscription("E1", k, s) /\ UNCHANGED hist

SpecData == Init /\ [][NextData]_vars

\* The store never answers the save of event e (the environment decides it
\* while the save is pending).
Stall(e) ==
  /\ e \in EventIds
  /\ ev[e].pc = "saving"
  /\ e \notin stalled
  /\ stalled' = stalled \cup {e}
  /\ UNCHANGED <<status, rooms, inbox, messages, subs, ev, users, chatSessions>>

\* The handler of event e resumes when the store answers its save.
Resume(e) == \E ok \in BOOLEAN : e \notin stalled /\ SaveDone(e, ok) /\ UNCHANGED hist

\* The handler of event e resumes when the store answers its query.
Answer(e) == \E ok \in BOOLEAN : FindDone(e, ok) /\ UNCHANGED hist

\* One socket joined to "abc" and events of "abc", with a store that answers
\* every write it does not stall; a handler whose await is answered resumes.
NextFair ==
  \/ \E c \in PushConns : Connect(c) /\ UNCHANGED hist
  \/ \E c \in PushConns, s \in PushRooms : JoinSession(c, s) /\ UNCHANGED hist
  \/ \E c \in PushConns : Disconnect(c) /\ UNCHANGED hist
  \/ \E c \in PushConns, m \in PushData : ChatMessage(c, m) /\ UNCHANGED hist
  \/ \E e \in 1..MaxEvents : Stall(e) /\ UNCHANGED <<joined2, prior, rereg, reg>>
  \/ \E e \in 1..MaxEvents : Resume(e)
  \/ \E e \in 1..MaxEvents : Answer(e)

SpecFair ==
  /\ Init /\ [][NextFair]_vars
  /\ \A e \in 1..MaxEvents : WF_vars(Resume(e)) /\ WF_vars(Answer(e))

\* The admin routes of the push-enabled server.
NextAdmin ==
  \/ \E u \in Uuids, ok \in BOOLEAN : CreateChat(u, ok) /\ UNCHANGED hist
  \/ \E u \in Uuids, okSession, okUser \in BOOLEAN :
        CreateUser(u, okSession, okUser) /\ UNCHANGED hist
  \/ \E d \in users, ok \in BOOLEAN : DeleteUser(d, ok) /\ UNCHANGED hist

SpecAdmin == Init /\ [][NextAdmin]_vars

\* The admin routes of src/server.js.
NextAdminBasic ==
  \/ \E u \in Uuids, ok \in BOOLEAN : CreateChat(u, ok) /\ UNCHANGED hist
  \/ \E u \in Uuids, ok \in BOOLEAN : CreateUserBasic(u, ok) /\ UNCHANGED hist
  \/ \E d \in users, ok \in BOOLEAN : DeleteUser(d, ok) /\ UNCHANGED hist

SpecAdminBasic == Init /\ [][NextAdminBasic]_vars

\* The socket handlers with every stage of the push fan-out: both sockets,
\* joins of both sessions, disconnects, events of "abc", one Subscription
\* of "abc".
NextSocket ==
  \/ \E c \in Conns : Connect(c) /\ UNCHANGED hist
  \/ \E c \in Conns, s \in Sessions : JoinSession(c, s) /\ UNCHANGED hist
  \/ \E c \in Conns : Disconnect(c) /\ UNCHANGED hist
  \/ \E c \in Conns, m \in PushData : ChatMessage(c, m) /\ UNCHANGED hist
  \/ \E e \in 1..MaxEvents, ok \in BOOLEAN : SaveDone(e, ok) /\ UNCHANGED hist
  \/ \E e \in 1..MaxEvents, ok \in BOOLEAN : FindDone(e, ok) /\ UNCHANGED hist
  \/ \E e \in 1..MaxEvents, p \in Endpoints : PushOk(e, p) /\ UNCHANGED hist
  \/ \E e \in 1..MaxEvents, p \in Endpoints, code \in StatusCodes :
        PushFail(e, p, code) /\ UNCHANGED hist
  \/ \E e \in 1..MaxEvents, p \in Endpoints, ok \in BOOLEAN :
        DeleteDone(e, p, ok) /\ UNCHANGED hist
  \/ \E k \in Keys, s \in PushRooms : SaveSubscription("E1", k, s) /\ UNCHANGED hist

SpecSocket == Init /\ [][NextSocket]_vars

(***************************************************************************)
(* The push-free server (src/server.js, lines 210-232; the Drive variant in *)
(* src/unnamed/part_000, lines 599-620, has the same handlers).  Its state  *)
(* is the sockets, the registry, what the sockets received, the Message     *)
(* collection and the position of each chatMessage handler: FreeEv gives    *)
(* that position for the events of the push-enabled server, whose handler   *)
(* is past the push-free handler's code once its save has settled.          *)
(***************************************************************************)
FreeEv ==
  [e \in EventIds |->
     [from |-> ev[e].from, msg |-> ev[e].msg,
      pc |-> IF ev[e].pc = "saving" THEN "saving" ELSE "done"]]

freeVars == <<status, rooms, inbox, messages, FreeEv>>

InitFree ==
  /\ status = [c \in Conns |-> "new"]
  /\ rooms = {}
  /\ inbox = [c \in Conns |-> <<>>]
  /\ messages = <<>>
  /\ FreeEv = <<>>

\* io.on('connection', (socket) => ...)
FreeConnect(c) ==
  /\ status[c] = "new"
  /\ status' = [status EXCEPT ![c] = "connected"]
  /\ UNCHANGED <<rooms, inbox, messages>>
  /\ FreeEv' = FreeEv

\* socket.on('joinSession', (sessionId) => socket.join(sessionId))
FreeJoinSession(c, s) ==
  /\ status[c] = "connected"
  /\ rooms' = rooms \cup {<<c, s>>}
  /\ UNCHANGED <<status, inbox, messages>>
  /\ FreeEv' = FreeEv

\* socket.on('disconnect', ...)
FreeDisconnect(c) ==
  /\ status[c] = "connected"
  /\ status' = [status EXCEPT ![c] = "disconnected"]
  /\ rooms' = {m \in rooms : m[1] # c}
  /\ UNCHANGED <<inbox, messages>>
  /\ FreeEv' = FreeEv

\* socket.on('chatMessage', async ({...}) => { messageData = ...;
\*   newMessage = new Message(messageData); await newMessage.save()
FreeChatMessage(c, m) ==
  /\ status[c] = "connected"
  /\ FreeEv' = Append(FreeEv, [from |-> c,
                               msg |-> [sessionId |-> m.sessionId,
                                        sender |-> m.sender, text |-> m.text,
                                        fileUrl |-> m.fileUrl,
                                        fileType |-> m.fileType],
                               pc |-> "saving"])
  /\ UNCHANGED <<status, rooms, inbox, messages>>

\* The save settles (caught when rejected):
\*   io.to(sessionId).emit('chatMessage', messageData)
FreeSaveDone(e, ok) ==
  /\ e \in DOMAIN FreeEv
  /\ FreeEv[e].pc = "saving"
  /\ messages' = IF ok THEN Append(messages, [id |-> e, doc |-> MessageDoc(FreeEv[e].msg)])
                 ELSE messages
  /\ inbox' = [c \in Conns |->
                IF <<c, FreeEv[e].msg.sessionId>> \in rooms
                THEN Append(inbox[c], [id |-> e, payload |-> FreeEv[e].msg])
                ELSE inbox[c]]
  /\ FreeEv' = [FreeEv EXCEPT ![e].pc = "done"]
  /\ UNCHANGED <<status, rooms>>

NextFree ==
  \/ \E c \in Conns : FreeConnect(c)
  \/ \E c \in Conns, s \in Sessions : FreeJoinSession(c, s)
  \/ \E c \in Conns : FreeDisconnect(c)
  \/ \E c \in Conns, m \in MessageData : FreeChatMessage(c, m)
  \/ \E e \in 1..MaxEvents, ok \in BOOLEAN : FreeSaveDone(e, ok)

\* ------------------------------------------------------------ properties

\* The emit of event e as a socket receives it.
Entry(e) == [id |-> e, payload |-> ev[e].msg]

Sess(e) == ev[e].msg.sessionId

\* Socket c has received the broadcast of event e.
Delivered(c, e) == \E i \in 1..Len(inbox[c]) : inbox[c][i].id = e

\* The number of times socket c has received the broadcast of event e.
Count(c, e) == Cardinality({i \in 1..Len(inbox[c]) : inbox[c][i].id = e})

\* The broadcast of e comes before the broadcast of f in what c received.
Before(c, e, f) ==
  \E i, j \in 1..Len(inbox[c]) : i < j /\ inbox[c][i].id = e /\ inbox[c][j].id = f

\* A step in which the save of event e settles: its handler resumes and
\* issues the broadcast.
SaveSettles(e) == ev[e].pc = "saving" /\ ev'[e].pc # "saving"

\* A step in which the Subscription query of event e settles.
QuerySettles(e) == ev[e].pc = "finding" /\ ev'[e].pc # "finding"

\* What the sockets have received after a broadcast of e to exactly the
\* sockets that are in e's room in the current state.
ToMembers(e) ==
  \A c \in Conns :
    inbox'[c] = IF <<c, Sess(e)>> \in rooms THEN Append(inbox[c], Entry(e))
                ELSE inbox[c]

Stored(p) == \E d \in subs : d.endpoint = p

StoredFor(p, s) == \E d \in subs : d.endpoint = p /\ d.sessionId = s

\* C1: the broadcast of a chatMessage event reaches every socket that is in
\* the event's room when the broadcast is issued and no other socket, and
\* nothing but a broadcast delivers to a socket.
C1_BroadcastToMembersOnly ==
  [][ /\ \A e \in EventIds : SaveSettles(e) => ToMembers(e)
      /\ (inbox' # inbox => \E e \in EventIds : SaveSettles(e)) ]_vars

\* C1 witness: an event was delivered to a socket while another socket,
\* joined only to a different session, did not receive it.
C1_Witness ==
  \E e \in EventIds, c1, c2 \in Conns, s2 \in Sessions :
    /\ c1 # c2 /\ s2 # Sess(e)
    /\ Delivered(c1, e) /\ ~Delivered(c2, e)
    /\ status[c2] = "connected"
    /\ <<c2, s2>> \in rooms /\ <<c2, Sess(e)>> \notin rooms

\* C2 (as claimed): two events of one session are delivered to a socket in
\* the order in which the server received them (events are numbered in
\* arrival order).
C2_ArrivalOrderIsDeliveryOrder ==
  \A c \in Conns : \A i, j \in 1..Len(inbox[c]) :
    (i < j /\ inbox[c][i].payload.sessionId = inbox[c][j].payload.sessionId)
      => inbox[c][i].id < inbox[c][j].id

\* C3: an event whose save failed is broadcast in the step in which the
\* failure is caught, to the members of its room, as after a successful
\* save; the handler goes on to the Subscription query, nothing else is
\* emitted (no error to the sender) and the Message is never written later.
C3_SaveFailureStillBroadcasts ==
  /\ [](\A e \in EventIds :
          (ev[e].pc # "saving" /\ ~ev[e].saved)
            => ~\E i \in 1..Len(messages) : messages[i].id = e)
  /\ [][\A e \in EventIds :
          (SaveSettles(e) /\ ~ev'[e].saved)
            => ToMembers(e) /\ ev'[e].pc = "finding" /\ messages' = messages]_vars

\* C3 witness: an event whose save failed has been delivered to a socket.
C3_Witness ==
  \E e \in EventIds, c \in Conns :
    ev[e].pc # "saving" /\ ~ev[e].saved /\ Delivered(c, e)

\* C10: a disconnected socket is in no room, no step delivers anything to
\* it, and the handler of every event broadcast afterwards goes on to its
\* next stage.
C10_DisconnectLeavesEveryRoom ==
  /\ [](\A c \in Conns : status[c] = "disconnected"
          => \A s \in Sessions : <<c, s>> \notin rooms)
  /\ [][ /\ \A c \in Conns : status[c] = "disconnected" => inbox'[c] = inbox[c]
         /\ \A e \in EventIds : SaveSettles(e) => ev'[e].pc = "finding" ]_vars

\* C10 witness: socket a received e1 of a session, disconnected, and did not
\* receive e2 of the same session, which socket b received after e1.
C10_Witness ==
  \E a, b \in Conns, e1, e2 \in EventIds :
    /\ a # b /\ e1 # e2 /\ Sess(e1) = Sess(e2)
    /\ status[a] = "disconnected"
    /\ Delivered(a, e1) /\ ~Delivered(a, e2)
    /\ Before(b, e1, e2)

\* C9: a joinSession by a socket that is already in the room changes
\* nothing; a socket that joined twice is in the room, receives each later
\* broadcast to the room once, and no socket ever receives a broadcast twice.
C9_JoinIdempotent ==
  /\ [](\A c \in Conns, e \in EventIds : Count(c, e) <= 1)
  /\ [](\A j \in joined2 : <<j.conn, j.sess>> \in rooms)
  /\ [][ /\ \A c \in Conns, s \in Sessions :
              (<<c, s>> \in rooms /\ JoinSession(c, s))
                => UNCHANGED <<status, rooms, inbox, messages, subs, ev, users, chatSessions>>
         /\ \A j \in joined2, e \in EventIds :
              (SaveSettles(e) /\ Sess(e) = j.sess)
                => inbox'[j.conn] = Append(inbox[j.conn], Entry(e)) ]_vars

\* C9 witness: a socket issued joinSession for a room it was in, and a
\* broadcast to the room issued after that was delivered to it once.
C9_Witness ==
  \E j \in joined2 : \E i \in 1..Len(inbox[j.conn]) :
    /\ i > j.at
    /\ inbox[j.conn][i].payload.sessionId = j.sess
    /\ Count(j.conn, inbox[j.conn][i].id) = 1

\* The push fan-out of an event as the handler leaves it when the query is
\* answered with the documents stored for the event's session.
OneEach(e) ==
  \A p \in Endpoints :
    IF StoredFor(p, Sess(e))
    THEN ev'[e].tries[p] = 1 /\ ev'[e].push[p] = "sending"
    ELSE ev'[e].tries[p] = 0 /\ ev'[e].push[p] = "none"

\* No sendNotification call is ever repeated, and the calls of one event
\* carry one payload, the one built from the event.
NoSecondCall ==
  \A e \in EventIds :
    /\ \A p \in Endpoints :
         ev[e].tries[p] = IF ev[e].push[p] = "none" THEN 0 ELSE 1
    /\ ev[e].payloads \subseteq {Payload(ev[e].msg)}
    /\ (ev[e].payloads = {} <=> \A p \in Endpoints : ev[e].push[p] = "none")

\* C4 (as claimed): when the Subscription query of an event settles, every
\* Subscription stored for the event's session gets one sendNotification
\* call, and no call is ever repeated.
C4_EveryRecordedSubscriptionOnce ==
  [][ /\ \A e \in EventIds : QuerySettles(e) => OneEach(e)
      /\ NoSecondCall' ]_vars

\* C4 (amended): when the Subscription query of an event is answered, every
\* Subscription stored for the event's session at that moment gets one
\* sendNotification call and no other endpoint gets one; when the query
\* fails no call is made; no call is ever repeated, whatever its outcome,
\* and the calls of one event carry one payload.
C4_OneAttemptPerReturnedSubscription ==
  /\ [](NoSecondCall)
  /\ [][\A e \in EventIds :
          /\ QuerySettles(e) =>
               IF ev'[e].pc = "pushing" THEN OneEach(e)
               ELSE ev'[e].tries = NoTries /\ ev'[e].push = NoPush
          /\ ~QuerySettles(e) => ev'[e].tries = ev[e].tries ]_vars

\* C4 witness: a socket is joined to the session, two Subscriptions of the
\* session were each called once, one call failed and was not repeated.
C4_Witness ==
  \E e \in EventIds, p, q \in Endpoints :
    /\ p # q
    /\ \E c \in Conns : <<c, Sess(e)>> \in rooms /\ Delivered(c, e)
    /\ ev[e].push[p] = "failed" /\ ev[e].tries[p] = 1
    /\ ev[e].push[q] = "sent" /\ ev[e].tries[q] = 1

\* C5 (as claimed): once the dispatch of an event has finished, an endpoint
\* whose call was classified gone (and that was not registered again) is not
\* in the store, and an event of the session whose query settles afterwards
\* does not call it.
C5_GoneIsRemoved ==
  /\ \A e \in EventIds, p \in Endpoints :
       (DispatchDone(e) /\ ev[e].push[p] \in GoneStates /\ p \notin rereg[e])
         => ~Stored(p)
  /\ \A f \in EventIds, p \in Endpoints :
       (ev[f].pc \in {"pushing", "findFailed"}
          /\ \E st \in GoneStates : <<p, st>> \in prior[f])
         => ev[f].tries[p] = 0

\* C5 (amended): a rejection is classified gone exactly when its status is
\* 404 or 410, and then deleteOne is called; once a deleteOne has succeeded,
\* the endpoint (unless registered again) is not in the store, and an event
\* of the session whose query settles after the dispatch has finished does
\* not call it.
C5_GoneIsRemovedWhenDeleteSucceeds ==
  /\ [](\A e \in EventIds, p \in Endpoints :
          (ev[e].push[p] = "deleted" /\ p \notin rereg[e]) => ~Stored(p))
  /\ [](\A f \in EventIds, p \in Endpoints :
          (ev[f].pc \in {"pushing", "findFailed"} /\ <<p, "deleted">> \in prior[f])
            => ev[f].tries[p] = 0)
  /\ [][\A e \in EventIds, p \in Endpoints, code \in StatusCodes :
          PushFail(e, p, code) =>
            (ev'[e].push[p] = "deleting" <=> code \in {404, 410})]_vars

\* C5 witness: the call of a finished dispatch to an endpoint was gone and
\* its deleteOne succeeded; a later query of the same session was answered
\* and the endpoint was not called.
C5_Witness ==
  \E e, f \in EventIds, p \in Endpoints :
    /\ e # f /\ Sess(e) = Sess(f)
    /\ DispatchDone(e) /\ ev[e].push[p] = "deleted" /\ p \notin rereg[e]
    /\ ev[f].pc = "pushing" /\ <<p, "deleted">> \in prior[f]
    /\ ev[f].tries[p] = 0

\* C6 (as claimed): after a call to an endpoint failed with a status that
\* is not gone, the next event of the session (one whose query settles
\* after that dispatch has finished) calls the endpoint again.
C6_TransientIsTargetedAgain ==
  \A f \in EventIds, p \in Endpoints :
    (ev[f].pc \in {"pushing", "findFailed"} /\ <<p, "failed">> \in prior[f])
      => ev[f].tries[p] = 1

\* C6 (amended): a rejection whose status is neither 404 nor 410 leaves the
\* store unchanged and calls no deleteOne; an event of the session whose
\* query is answered while the Subscription is still stored for the session
\* calls the endpoint again.
C6_TransientIsRetained ==
  /\ [][\A e \in EventIds, p \in Endpoints, code \in StatusCodes :
          (PushFail(e, p, code) /\ code \notin {404, 410})
            => subs' = subs /\ ev'[e].push[p] = "failed"]_vars
  /\ [][\A e \in EventIds, p \in Endpoints :
          ev[e].push[p] = "failed" => ev'[e].push[p] = "failed"]_vars
  /\ [][\A e, f \in EventIds, p \in Endpoints :
          (/\ ev[e].push[p] = "failed" /\ Sess(e) = Sess(f)
           /\ QuerySettles(f) /\ ev'[f].pc = "pushing"
           /\ StoredFor(p, Sess(f)))
            => ev'[f].tries[p] = 1 /\ ev'[f].push[p] = "sending"]_vars

\* C6 witness: a call to an endpoint failed and was not gone, the
\* Subscription is still stored, and an event of the session whose query
\* was answered after that dispatch had finished called the endpoint.
C6_Witness ==
  \E e, f \in EventIds, p \in Endpoints :
    /\ e # f /\ Sess(e) = Sess(f)
    /\ ev[e].push[p] = "failed" /\ StoredFor(p, Sess(e))
    /\ ev[f].pc = "pushing" /\ <<p, "failed">> \in prior[f]
    /\ ev[f].tries[p] = 1

\* C7: every document the query returned is called; a step that settles
\* the call (or the deleteOne) of one endpoint changes nothing of the
\* event's other calls; and a call that has not settled can settle in
\* every way, whatever the other calls did.
C7_FailureIsolation ==
  /\ [](\A e \in EventIds :
          /\ \A d \in ev[e].snap : ev[e].tries[d.endpoint] = 1
          /\ \A p \in Endpoints :
               ev[e].push[p] = "sending" =>
                 /\ ENABLED PushOk(e, p)
                 /\ \A code \in StatusCodes : ENABLED PushFail(e, p, code))
  /\ [][\A e \in EventIds, p \in Endpoints :
          (ev[e].push[p] # "none" /\ ev'[e].push[p] # ev[e].push[p])
            => \A q \in Endpoints \ {p} :
                 /\ ev'[e].push[q] = ev[e].push[q]
                 /\ ev'[e].tries[q] = ev[e].tries[q] ]_vars

\* C7 witness: of two calls of one event, one was gone and its deleteOne
\* failed, and the other one was delivered.
C7_Witness ==
  \E e \in EventIds, p, q \in Endpoints :
    /\ p # q
    /\ ev[e].push[p] = "deleteFailed"
    /\ ev[e].push[q] = "sent"

\* C8: the step that issues the Subscription query of an event has issued
\* its broadcast; sendNotification is called only when that query is
\* answered; and the broadcast of an event whose save is pending can be
\* issued whatever the queries and calls of the events have done so far.
C8_BroadcastBeforePush ==
  /\ [](\A e \in EventIds :
          ev[e].pc = "saving" =>
            ENABLED SaveDone(e, TRUE) /\ ENABLED SaveDone(e, FALSE))
  /\ [][\A e \in EventIds :
          /\ SaveSettles(e) =>
               ToMembers(e) /\ ev'[e].pc = "finding" /\ ev'[e].tries = NoTries
          /\ ev'[e].tries # ev[e].tries => ev[e].pc = "finding" ]_vars

\* C8 witness: an event was delivered to a socket and one of its calls has
\* not settled, while the save of another event is pending.
C8_Witness ==
  \E e, f \in EventIds, p \in Endpoints, c \in Conns :
    /\ ev[e].push[p] = "sending" /\ Delivered(c, e)
    /\ ev[f].pc = "saving"

\* The events whose save has settled: they are past the persistence stage.
PastPersistence == {e \in EventIds : ev[e].pc # "saving"}

\* The events whose save has succeeded.
Persisted == {e \in EventIds : ev[e].pc # "saving" /\ ev[e].saved}

\* C11 (as claimed): the number of stored Messages is the number of events
\* that are past the persistence stage.
C11_OneMessagePerEvent == Len(messages) = Cardinality(PastPersistence)

\* C11 (amended): the stored Messages are those of the events whose save
\* succeeded, one each, carrying the event's data; a step leaves the
\* collection as it is or appends one Message to it.
C11_OneMessagePerSavedEvent ==
  /\ [](/\ Len(messages) = Cardinality(Persisted)
        /\ \A e \in Persisted :
             Cardinality({i \in 1..Len(messages) : messages[i].id = e}) = 1
        /\ \A i \in 1..Len(messages) :
             /\ messages[i].id \in Persisted
             /\ messages[i].doc = MessageDoc(ev[messages[i].id].msg))
  /\ [][ \/ messages' = messages
         \/ /\ Len(messages') = Len(messages) + 1
            /\ SubSeq(messages', 1, Len(messages)) = messages ]_vars

\* C11 witness: of two events past the persistence stage, the save of the
\* first failed and the save of the second succeeded: one Message is stored.
C11_Witness ==
  /\ Len(ev) = 2 /\ PastPersistence = {1, 2}
  /\ ~ev[1].saved /\ ev[2].saved
  /\ Len(messages) = 1 /\ messages[1].id = 2

\* The document a registration with body b leaves in the store.
RegDoc(b) == [endpoint |-> b.endpoint, keys |-> b.keys, sessionId |-> b.sessionId]

\* A step that handles a save-subscription request.
Registers == reg' # reg

\* C12: the store never holds two Subscriptions of one endpoint; a
\* registration that is performed leaves one document for its endpoint,
\* carrying the keys and the sessionId of the request, and the other
\* documents as they were; an event whose query is answered calls no
\* endpoint that is bound to another session.
C12_OneSubscriptionPerEndpoint ==
  /\ [](\A d1, d2 \in subs : d1.endpoint = d2.endpoint => d1 = d2)
  /\ [][(Registers /\ reg'.status = 201) =>
          /\ RegDoc(reg'.body) \in subs'
          /\ \A d \in subs' : d.endpoint = reg'.body.endpoint => d = RegDoc(reg'.body)
          /\ \A d \in subs : d.endpoint # reg'.body.endpoint => d \in subs'
          /\ \A d \in subs' : d.endpoint # reg'.body.endpoint => d \in subs]_vars
  /\ [][\A e \in EventIds, d \in subs :
          (QuerySettles(e) /\ d.sessionId # Sess(e))
            => ev'[e].tries[d.endpoint] = 0]_vars

\* C12 witness: an event of one session was answered with a Subscription
\* whose endpoint has since been registered with other keys for the other
\* session: the store holds the new document and not the old one.
C12_Witness ==
  \E e \in EventIds : \E old \in ev[e].snap :
    /\ reg.status = 201 /\ reg.body.endpoint = old.endpoint
    /\ reg.body.keys # old.keys /\ reg.body.sessionId # old.sessionId
    /\ RegDoc(reg.body) \in subs /\ old \notin subs

\* C13: a request whose body lacks the endpoint or the keys is answered
\* with status 400 without a store operation, and the Subscription
\* collection is left as it was.
C13_MalformedIsRejected ==
  /\ [](reg.status = 400 => ~reg.called)
  /\ [][(Registers /\ (reg'.body.endpoint = Absent \/ reg'.body.keys = Absent))
          => reg'.status = 400 /\ ~reg'.called /\ subs' = subs]_vars

\* C13 witness: a request that carried an endpoint and no keys was answered
\* with status 400 while the store held a Subscription of that endpoint.
C13_Witness ==
  /\ reg.status = 400 /\ ~reg.called
  /\ reg.body.endpoint # Absent /\ reg.body.keys = Absent
  /\ Stored(reg.body.endpoint)

\* The five properties of messageData.
Five == {"sessionId", "sender", "text", "fileUrl", "fileType"}

\* The properties of messageData whose path has a default in messageSchema.
Defaulted == {"text", "fileUrl", "fileType"}

\* The default '' of path f: text is a sequence of characters, the other
\* paths are strings.
EmptyOf(f) == IF f = "text" THEN <<>> ELSE ""

\* Equality of two values of a property, either of which may be undefined.
Same(a, b) == IF a = Absent THEN b = Absent ELSE a = b

\* C14 (as claimed): what a socket receives for an event has the five
\* properties, and the stored Message carries the same five values.
C14_FiveFieldsEverywhere ==
  /\ \A c \in Conns : \A i \in 1..Len(inbox[c]) :
       DOMAIN inbox[c][i].payload = Five
  /\ \A i \in 1..Len(messages) : \A f \in Five :
       /\ messages[i].doc[f] = ev[messages[i].id].inb[f]
       /\ \A c \in Conns : \A j \in 1..Len(inbox[c]) :
            inbox[c][j].id = messages[i].id
              => messages[i].doc[f] = inbox[c][j].payload[f]

\* C14 (amended): messageData has the five properties with the values of
\* the inbound payload (a property the payload lacks is undefined) and no
\* other property; it is what the sockets receive; the stored Message
\* carries the value of every property that is defined and the default ''
\* for an undefined text, fileUrl or fileType.
C14_FiveFieldsWithDefaults ==
  /\ [](\A c \in Conns : \A i \in 1..Len(inbox[c]) :
          /\ DOMAIN inbox[c][i].payload = Five
          /\ \A f \in Five :
               Same(inbox[c][i].payload[f], ev[inbox[c][i].id].inb[f]))
  /\ [](\A i \in 1..Len(messages) : \A f \in Five :
          LET v == ev[messages[i].id].inb[f] IN
            IF v = Absent
            THEN f \in Defaulted /\ messages[i].doc[f] = EmptyOf(f)
            ELSE messages[i].doc[f] = v)
  /\ [](\A e \in EventIds :
          /\ DOMAIN ev[e].msg = Five
          /\ \A f \in Five : Same(ev[e].msg[f], ev[e].inb[f]))

\* C14 witness: an event that carries a text and a file and a createdAt
\* was delivered to a socket and stored.
C14_Witness ==
  \E e \in EventIds, c \in Conns :
    /\ Delivered(c, e) /\ ev[e].saved
    /\ TextOf(1) = ev[e].inb.text /\ ev[e].inb.fileType = "image/png"
    /\ ev[e].inb.createdAt = "t0"
    /\ \E i \in 1..Len(messages) :
         messages[i].id = e /\ messages[i].doc.text = TextOf(1)

\* C15: the body of the payload passed to sendNotification is the fallback
\* when the text is absent or empty, the text when it has at most 100
\* characters, and its first 100 characters otherwise; the icon is the
\* fileUrl when the fileType is an image type and is absent otherwise.
C15_BodyAndIcon ==
  \A e \in EventIds : \A pl \in ev[e].payloads :
    LET t == ev[e].msg.text IN
      /\ pl.body =
           IF t = Absent THEN "Sent an attachment"
           ELSE IF Len(t) = 0 THEN "Sent an attachment"
           ELSE IF Len(t) <= 100 THEN t
           ELSE SubSeq(t, 1, 100)
      /\ (pl.body # "Sent an attachment" => Len(pl.body) <= 100)
      /\ pl.icon = IF ev[e].msg.fileType = "image/png" THEN ev[e].msg.fileUrl
                   ELSE Absent

\* C15 witness: a payload built from a text of 101 characters and an image
\* has a body of 100 characters and the fileUrl as its icon.
C15_Witness ==
  \E e \in EventIds : \E pl \in ev[e].payloads :
    /\ TextOf(101) = ev[e].msg.text
    /\ Len(pl.body) = 100 /\ pl.body[100] = 100
    /\ pl.icon = "/f/a.png"

\* The stages of event e in the order of the handler's code.
StageNo(e) ==
  IF ev[e].pc = "saving" THEN 1              \* RECEIVED, save pending
  ELSE IF ev[e].pc = "finding" THEN 3        \* PERSISTED, BROADCAST, query pending
  ELSE IF ~DispatchDone(e) THEN 4            \* PUSH_DISPATCHED
  ELSE 5                                     \* DONE

\* C16: an event has been delivered to a socket only when its save has
\* settled; the step in which the save settles issues the broadcast and then
\* the query, and no later step of the event delivers anything; the
\* handler's position only moves forward, one await at a time; a finished
\* event does not change; no socket receives an event twice and no event
\* has two Messages or two calls to one endpoint.
C16_StagesInOrder ==
  /\ [](\A e \in EventIds :
          /\ (\E c \in Conns : Delivered(c, e)) => ev[e].pc # "saving"
          /\ \A c \in Conns : Count(c, e) <= 1
          /\ Cardinality({i \in 1..Len(messages) : messages[i].id = e}) <= 1
          /\ \A p \in Endpoints : ev[e].tries[p] <= 1
          /\ ev[e].pc = "saving" => ev[e].tries = NoTries /\ ev[e].snap = {})
  /\ [][\A e \in EventIds :
          /\ StageNo(e)' >= StageNo(e)
          /\ ev'[e].pc # ev[e].pc =>
               \/ ev[e].pc = "saving" /\ ev'[e].pc = "finding" /\ ToMembers(e)
               \/ ev[e].pc = "finding" /\ ev'[e].pc \in {"pushing", "findFailed"}
          /\ (ev[e].pc # "saving" /\ ev'[e] # ev[e]) =>
               inbox' = inbox /\ messages' = messages
          /\ StageNo(e) = 5 => ev'[e] = ev[e] ]_vars

\* C16 witness: an event that was saved, delivered to a socket, and whose
\* calls have all settled, one of them delivered.
C16_Witness ==
  \E e \in EventIds, c \in Conns, p \in Endpoints :
    /\ StageNo(e) = 5 /\ ev[e].saved /\ Count(c, e) = 1
    /\ ev[e].push[p] = "sent"

\* C17 (as claimed): every event that was received is eventually broadcast
\* (its handler gets past the save).
C17_EveryEventIsBroadcast ==
  \A e \in 1..MaxEvents :
    (e \in EventIds) ~> (e \in EventIds /\ ev[e].pc # "saving")

\* C18 (as claimed): every stored User has one ChatSession in the store,
\* the one whose sessionId is embedded in the User's link.
C18_UserHasChatSession ==
  \A d \in users :
    Cardinality({c \in chatSessions : c.sessionId = SessionOf(d.link)}) = 1

\* C19: an endpoint leaves the store only in the step in which the
\* deleteOne of a call to that endpoint succeeds; a deleteOne is called only
\* by the rejection of a pending call to that endpoint with status 404 or
\* 410; every other step (a delivery, another rejection, a query that is
\* answered or fails, a save that settles, a joinSession) removes nothing.
C19_PruneOnlyOnGone ==
  /\ [][\A p \in Endpoints :
          (Stored(p) /\ ~Stored(p)')
            => \E e \in EventIds :
                 ev[e].push[p] = "deleting" /\ ev'[e].push[p] = "deleted"]_vars
  /\ [][\A e \in EventIds, p \in Endpoints :
          (ev[e].push[p] # "deleting" /\ ev'[e].push[p] = "deleting")
            => /\ ev[e].push[p] = "sending"
               /\ \E code \in {404, 410} : PushFail(e, p, code)
               /\ subs' = subs]_vars
  /\ [][\A e \in EventIds, p \in Endpoints :
          /\ PushOk(e, p) => subs' = subs /\ ev'[e].push[p] = "sent"
          /\ \A code \in StatusCodes \ {404, 410} :
               PushFail(e, p, code) => subs' = subs /\ ev'[e].push[p] = "failed"
          /\ QuerySettles(e) => subs' = subs
          /\ SaveSettles(e) => subs' = subs]_vars
  /\ [](\A e \in EventIds, p \in Endpoints :
          ev[e].push[p] \in {"sent", "failed"} =>
            ~ENABLED DeleteDone(e, p, TRUE))

\* C19 witness: of two Subscriptions called by one event, the one whose call
\* was gone has been deleted and the one whose call failed otherwise is in
\* the store.
C19_Witness ==
  \E e \in EventIds, p, q \in Endpoints :
    /\ ev[e].push[p] = "deleted" /\ ~Stored(p)
    /\ ev[e].push[q] = "failed" /\ Stored(q)

\* C20 (as claimed): the deleteOne of a dispatch removes only a document
\* that the event's query returned, and none bound to another session.
C20_PruneOnlyTheQueriedRecord ==
  [][\A e \in EventIds, p \in Endpoints :
       (ev[e].push[p] = "deleting" /\ ev'[e].push[p] = "deleted")
         => \A d \in subs :
              (d \notin ev[e].snap \/ d.sessionId # Sess(e)) => d \in subs']_vars

\* The socket that sent event e is not connected or is not in e's room.
SenderAway(e) ==
  status[ev[e].from] # "connected" \/ <<ev[e].from, Sess(e)>> \notin rooms

\* C21: whatever has become of the sending socket, the pending save and the
\* pending query of an event can be answered; when the save settles while
\* the sender is disconnected or outside the room, the event is broadcast
\* to the sockets in the room and the query is issued; when the query is
\* answered, every Subscription stored for the session is called.
C21_SenderNeedNotStay ==
  /\ [](\A e \in EventIds :
          /\ ev[e].pc = "saving" =>
               ENABLED SaveDone(e, TRUE) /\ ENABLED SaveDone(e, FALSE)
          /\ ev[e].pc = "finding" =>
               ENABLED FindDone(e, TRUE) /\ ENABLED FindDone(e, FALSE))
  /\ [][\A e \in EventIds :
          /\ (SaveSettles(e) /\ SenderAway(e))
               => ToMembers(e) /\ ev'[e].pc = "finding"
          /\ (QuerySettles(e) /\ ev'[e].pc = "pushing" /\ SenderAway(e))
               => OneEach(e) ]_vars

\* C21 witness: socket a received e1 of a session, sent e2 of the session
\* and did not receive it (it disconnected while the save of e2 was
\* pending); socket b received e2 and the call of e2 was delivered.
C21_Witness ==
  \E a, b \in Conns, e1, e2 \in EventIds, p \in Endpoints :
    /\ a # b /\ e1 # e2 /\ Sess(e1) = Sess(e2)
    /\ ev[e2].from = a /\ status[a] = "disconnected"
    /\ Delivered(a, e1) /\ ~Delivered(a, e2)
    /\ Delivered(b, e2)
    /\ ev[e2].push[p] = "sent"

\* C22: a step of the handling of an event (its receipt, its save, query,
\* calls and deletes settling) leaves the registry and the sockets as they
\* are; a step that changes the registry or a socket leaves the Message and
\* the Subscription collections and the events as they are; joinSession(s)
\* by socket c changes no membership but that of c in s.
C22_FrameConditions ==
  /\ [][ev' # ev => rooms' = rooms /\ status' = status]_vars
  /\ [][(rooms' # rooms \/ status' # status)
          => messages' = messages /\ subs' = subs /\ ev' = ev /\ inbox' = inbox]_vars
  /\ [][\A c \in Conns, s \in Sessions :
          JoinSession(c, s) =>
            /\ messages' = messages /\ subs' = subs
            /\ <<c, s>> \in rooms'
            /\ \A c2 \in Conns, s2 \in Sessions :
                 <<c2, s2>> # <<c, s>> =>
                   (<<c2, s2>> \in rooms' <=> <<c2, s2>> \in rooms)]_vars
  /\ [][\A c \in Conns :
          Disconnect(c) => messages' = messages /\ subs' = subs]_vars

\* C22 witness: a socket is in both rooms and the other socket in one of
\* them, a Message and a Subscription are stored, and a call of an event
\* has been made.
C22_Witness ==
  \E a, b \in Conns, e \in EventIds, p \in Endpoints :
    /\ a # b
    /\ <<a, "abc">> \in rooms /\ <<a, "xyz">> \in rooms /\ <<b, "abc">> \in rooms
    /\ Len(messages) > 0 /\ subs # {}
    /\ ev[e].tries[p] = 1

\* C23: every step of the push-enabled server is a step of the push-free
\* server or leaves the push-free server's state (sockets, registry, what
\* each socket received, Message collection, handler positions) unchanged,
\* from the same initial state: the two produce the same Message store and
\* the same deliveries to every socket on the same events and outcomes.
C23_RefinesPushFree == InitFree /\ [][NextFree]_freeVars

\* C23 witness: two events of which one was not saved; both were delivered
\* to a socket; a call of one failed and a gone call's delete failed.
C23_Witness ==
  \E e, f \in EventIds, c \in Conns, p \in Endpoints :
    /\ e # f /\ ev[e].saved /\ ev[f].pc # "saving" /\ ~ev[f].saved
    /\ Delivered(c, e) /\ Delivered(c, f)
    /\ Len(messages) = 1
    /\ ev[e].push[p] = "deleteFailed" /\ ev[f].push[p] = "failed"

====
